---- MODULE Spec2Model ----
(***************************************************************************)
(* A model of the CopperHead robot player (robot.py): the move evaluator   *)
(* RobotPlayer.calculate_move as operators, and the session loop           *)
(* RobotPlayer.play / handle_message as a state machine.                   *)
(***************************************************************************)
EXTENDS Integers, Sequences, FiniteSets, TLC

VARIABLES
    pc,            \* position of the play() coroutine
    ws,            \* the transport self.ws: "unset", "open" or "closed"
    running,       \* self.running
    player_id,     \* self.player_id
    room_id,       \* self.room_id
    game_state,    \* self.game_state
    wins,          \* self.wins
    games_played,  \* self.games_played
    difficulty,    \* self.difficulty
    msg,           \* the inbound frame being handled (the last one received)
    out,           \* the actions sent while handling msg, in order
    direction,     \* the value of the last calculate_move() call
    mistaken,      \* whether that call applied a random penalty to a candidate
    orphans,       \* connections replaced in self.ws while still open
    joins_here,    \* the joined frames handled on the connection in self.ws: 0, 1
                   \* or 2 for two and more
    stub           \* the script of a stub transport, or NoStub for any transport

vars == <<pc, ws, running, player_id, room_id, game_state, wins, games_played,
          difficulty, msg, out, direction, mistaken, orphans,
          joins_here, stub>>

\* Whether a joined frame was handled on the connection in self.ws.
joined_here == joins_here > 0

-----------------------------------------------------------------------------
(* Values *)

GRID_WIDTH == 30
GRID_HEIGHT == 20

\* Python's None where the other values are numbers (player_id, room_id, winner).
None == -1
\* Python's None where the other values are strings (a direction, str(None)).
NoneStr == "None"
\* A missing snapshot (self.game_state is None): a record without fields.
NoGame == [present |-> FALSE]

\* The keys of the dict `directions`, in insertion order.
directions == <<"up", "down", "left", "right">>
DirSet == {directions[i] : i \in 1..Len(directions)}

\* directions[d]: the unit step of a direction.
Delta(d) ==
    CASE d = "up" -> <<0, -1>>
      [] d = "down" -> <<0, 1>>
      [] d = "left" -> <<-1, 0>>
      [] d = "right" -> <<1, 0>>

\* opposites.get(d): None for a string that is no direction.
opposites(d) ==
    CASE d = "up" -> "down"
      [] d = "down" -> "up"
      [] d = "left" -> "right"
      [] d = "right" -> "left"
      [] OTHER -> NoneStr

\* str(player_id)
Str(v) == IF v = None THEN NoneStr ELSE ToString(v)

\* self.difficulty = max(1, min(10, difficulty))
ClampDifficulty(d) ==
    LET lo == IF d < 10 THEN d ELSE 10
    IN  IF lo > 1 THEN lo ELSE 1

Abs(n) == IF n < 0 THEN -n ELSE n
Min2(a, b) == IF a < b THEN a ELSE b

-----------------------------------------------------------------------------
(* calculate_move *)

\* my_snake.get("direction", "right")
SnakeDirection(snake) ==
    IF "direction" \in DOMAIN snake THEN snake.direction ELSE "right"

\* snake_data.get("body", [])
SnakeBody(snake) ==
    IF "body" \in DOMAIN snake THEN snake.body ELSE <<>>

\* The set `dangerous`: every segment of every snake's body.
Dangerous(snakes) ==
    UNION {{SnakeBody(snakes[k])[i] : i \in 1..Len(SnakeBody(snakes[k]))} :
           k \in DOMAIN snakes}

\* is_safe without the wall test (a grid that wraps or has no border).
is_safe_NoWalls(x, y, dangerous) == <<x, y>> \notin dangerous

is_safe(x, y, dangerous) ==
    IF x < 0 \/ x >= GRID_WIDTH \/ y < 0 \/ y >= GRID_HEIGHT THEN FALSE
    ELSE IF <<x, y>> \in dangerous THEN FALSE
    ELSE TRUE

count_safe_neighbors(x, y, dangerous) ==
    Cardinality({d \in DirSet :
                   is_safe(x + Delta(d)[1], y + Delta(d)[2], dangerous)})

\* The first pass without the "can't reverse" test.
IsSafeMove_MayReverse(d, head, current_dir, dangerous) ==
    is_safe(head[1] + Delta(d)[1], head[2] + Delta(d)[2], dangerous)

\* Whether the first pass keeps direction d as a safe move.
IsSafeMove(d, head, current_dir, dangerous) ==
    /\ d # opposites(current_dir)
    /\ is_safe(head[1] + Delta(d)[1], head[2] + Delta(d)[2], dangerous)

\* First pass: the list safe_moves, in the order of `directions`.
SafeMoves(head, current_dir, dangerous) ==
    LET keep(d) == IsSafeMove(d, head, current_dir, dangerous)
        kept == SelectSeq(directions, keep)
    IN  [i \in 1..Len(kept) |->
            [direction |-> kept[i],
             x |-> head[1] + Delta(kept[i])[1],
             y |-> head[2] + Delta(kept[i])[2]]]

\* The doomed move taken to be the current direction.
DoomedMove_Current(current_dir) == current_dir

\* No safe move: the first direction that does not reverse, else current_dir.
DoomedMove(current_dir) ==
    LET ok(d) == d # opposites(current_dir)
        kept == SelectSeq(directions, ok)
    IN  IF Len(kept) > 0 THEN kept[1] ELSE current_dir

\* The score without the bonus for capturing food.
BaseScore_NoFoodBonus(move, food, dangerous) ==
    LET hasFood == Len(food) > 0
        escape == count_safe_neighbors(move.x, move.y, dangerous) * 50
        foodPull == IF hasFood
                    THEN (GRID_WIDTH + GRID_HEIGHT
                          - (Abs(move.x - food[1]) + Abs(move.y - food[2]))) * 10
                    ELSE 0
        edge_dist == Min2(Min2(move.x, GRID_WIDTH - 1 - move.x),
                          Min2(move.y, GRID_HEIGHT - 1 - move.y))
    IN  escape + foodPull + edge_dist * 5

\* The score of one safe move before the random factor.
BaseScore(move, food, dangerous) ==
    LET hasFood == Len(food) > 0
        foodBonus == IF hasFood /\ move.x = food[1] /\ move.y = food[2]
                     THEN 1000 ELSE 0
        escape == count_safe_neighbors(move.x, move.y, dangerous) * 50
        foodPull == IF hasFood
                    THEN (GRID_WIDTH + GRID_HEIGHT
                          - (Abs(move.x - food[1]) + Abs(move.y - food[2]))) * 10
                    ELSE 0
        edge_dist == Min2(Min2(move.x, GRID_WIDTH - 1 - move.x),
                          Min2(move.y, GRID_HEIGHT - 1 - move.y))
    IN  foodBonus + escape + foodPull + edge_dist * 5

\* random.random() < mistake_chance, with mistake_chance = (10 - difficulty) / 20
\* and the draw given in twentieths.
IsMistake(roll, diff) == roll < 10 - diff

\* A random factor twice as large.
Penalty_Doubled(rnd, diff) ==
    IF IsMistake(rnd.roll, diff) THEN rnd.amount * 2 ELSE 0

\* The random factor of one candidate: rnd is the pair of draws made for it.
Penalty(rnd, diff) ==
    IF IsMistake(rnd.roll, diff) THEN rnd.amount ELSE 0

\* The score of one safe move as compared with best_score.
Score(move, food, dangerous, rnd, diff) ==
    BaseScore(move, food, dangerous) - Penalty(rnd[move.direction], diff)

\* A comparison that lets a later candidate take over on an equal score.
Better_OrEqual(score, best_score) == score >= best_score

\* score > best_score
Better(score, best_score) == score > best_score

\* The scoring loop over safe_moves[i..]: best is [dir, score, set].
RECURSIVE BestFrom(_, _, _, _, _, _, _)
BestFrom(i, moves, food, dangerous, rnd, diff, best) ==
    IF i > Len(moves) THEN best.dir
    ELSE LET score == Score(moves[i], food, dangerous, rnd, diff)
         IN  IF ~best.set \/ Better(score, best.score)
             THEN BestFrom(i + 1, moves, food, dangerous, rnd, diff,
                           [dir |-> moves[i].direction, score |-> score, set |-> TRUE])
             ELSE BestFrom(i + 1, moves, food, dangerous, rnd, diff, best)

\* self.game_state.get("snakes", {})
GameSnakes(game) == IF "snakes" \in DOMAIN game THEN game.snakes ELSE <<>>

\* self.game_state.get("food"): <<>> stands for None
GameFood(game) == IF "food" \in DOMAIN game THEN game.food ELSE <<>>

\* An evaluator that gives up when no move is safe.
calculate_move_NoDoomed(game, pid, diff, rnd) ==
    IF ~game.present THEN NoneStr
    ELSE IF Str(pid) \notin DOMAIN GameSnakes(game) THEN NoneStr
    ELSE LET my_snake == GameSnakes(game)[Str(pid)]
         IN  IF Len(SnakeBody(my_snake)) = 0 THEN NoneStr
             ELSE LET head == my_snake.body[1]
                      current_dir == SnakeDirection(my_snake)
                      dangerous == Dangerous(GameSnakes(game))
                      safe_moves == SafeMoves(head, current_dir, dangerous)
                  IN  IF Len(safe_moves) = 0 THEN NoneStr
                      ELSE BestFrom(1, safe_moves, GameFood(game), dangerous, rnd, diff,
                                    [dir |-> NoneStr, score |-> 0, set |-> FALSE])

\* calculate_move(): game is self.game_state, pid is self.player_id and rnd gives,
\* for each direction, the draws of the random source made for that candidate.
calculate_move(game, pid, diff, rnd) ==
    IF ~game.present THEN NoneStr
    ELSE IF Str(pid) \notin DOMAIN GameSnakes(game) THEN NoneStr
    ELSE LET my_snake == GameSnakes(game)[Str(pid)]
         IN  IF Len(SnakeBody(my_snake)) = 0 THEN NoneStr
             ELSE LET head == my_snake.body[1]
                      current_dir == SnakeDirection(my_snake)
                      dangerous == Dangerous(GameSnakes(game))
                      safe_moves == SafeMoves(head, current_dir, dangerous)
                  IN  IF Len(safe_moves) = 0 THEN DoomedMove(current_dir)
                      ELSE BestFrom(1, safe_moves, GameFood(game), dangerous, rnd, diff,
                                    [dir |-> NoneStr, score |-> 0, set |-> FALSE])

-----------------------------------------------------------------------------
(* The inputs of the evaluator *)

\* The longest body of the opponent's snake in a drawn snapshot.
MaxOppLen == 3

\* The draws of random.random() considered, in twentieths.
Rolls == {0, 7, 19}
\* The values of random.randint(0, 30) considered.
Amounts == {0, 15, 30}

\* The pairs of draws that differ in effect at difficulty diff.
Draws(diff) ==
    {[roll |-> r, amount |-> IF IsMistake(r, diff) THEN a ELSE 0] :
        r \in Rolls, a \in Amounts}

Step(c, d) == <<c[1] + Delta(d)[1], c[2] + Delta(d)[2]>>
InGrid(c) == c[1] >= 0 /\ c[1] < GRID_WIDTH /\ c[2] >= 0 /\ c[2] < GRID_HEIGHT
Adjacent(c) == {Step(c, d) : d \in DirSet}

\* Heads in the corners, on the walls and inside the grid.
HeadCells == {<<x, y>> : x \in {0, 5, GRID_WIDTH - 1}, y \in {0, 5, GRID_HEIGHT - 1}}

\* The cells other than the head that decide safety and escape routes.
Near(head) ==
    {c \in UNION {Adjacent(a) : a \in Adjacent(head)} \cup Adjacent(head) :
        InGrid(c) /\ c # head}

\* The connected bodies of at most n segments inside `cells`.
RECURSIVE Paths(_, _)
Paths(n, cells) ==
    IF n = 0 THEN {<<>>}
    ELSE LET shorter == Paths(n - 1, cells)
             longest == {q \in shorter : Len(q) = n - 1}
             next(q) == IF Len(q) = 0 THEN cells
                        ELSE {c \in cells \cap Adjacent(q[Len(q)]) :
                                \A i \in 1..Len(q) : q[i] # c}
         IN  shorter \cup UNION {{Append(q, c) : c \in next(q)} : q \in longest}

\* The own snake: no body, the head alone, or the head and the segment behind it.
OwnBodies(head, dir) ==
    LET behind == Step(head, opposites(dir))
    IN  {<<>>, <<head>>} \cup (IF InGrid(behind) THEN {<<head, behind>>} ELSE {})

OwnSnakes(head) ==
    UNION {{[body |-> b, direction |-> d] : b \in OwnBodies(head, d)} : d \in DirSet}
    \cup {[body |-> b] : b \in OwnBodies(head, "right")}

\* The food: none, a cell next to the head, or a cell far from it.
Foods(head) == {<<>>, <<10, 5>>} \cup {c \in Adjacent(head) : InGrid(c)}

\* The dict `snakes` of own snake `own` (under key "1") and an opponent's body.
SnakesOf(own, opp) ==
    IF Len(opp) = 0 THEN [k \in {"1"} |-> own]
    ELSE [k \in {"1", "2"} |->
            IF k = "1" THEN own ELSE [body |-> opp, direction |-> "left"]]

\* The running snapshots drawn around one head cell.
Snapshots(head) ==
    {[present |-> TRUE, running |-> TRUE, snakes |-> SnakesOf(own, opp), food |-> f] :
        own \in OwnSnakes(head), opp \in Paths(MaxOppLen, Near(head)), f \in Foods(head)}
    \cup {[present |-> TRUE, running |-> TRUE, food |-> f,
           snakes |-> [k \in {"2"} |-> [body |-> <<head>>, direction |-> "left"]]] :
            f \in Foods(head)}

\* The directions for which calculate_move draws from the random source.
Candidates(game, pid) ==
    IF ~game.present \/ Str(pid) \notin DOMAIN GameSnakes(game) THEN {}
    ELSE LET my_snake == GameSnakes(game)[Str(pid)]
         IN  IF Len(SnakeBody(my_snake)) = 0 THEN {}
             ELSE {d \in DirSet :
                     IsSafeMove(d, my_snake.body[1], SnakeDirection(my_snake),
                                Dangerous(GameSnakes(game)))}

\* No frame received yet.
NoMsg == [kind |-> "none"]

\* The transport is not scripted: connects fail or succeed and frames arrive in
\* any order.
NoStub == [scripted |-> FALSE]

-----------------------------------------------------------------------------
(* The evaluator alone: Init draws its inputs, Evaluate applies it. *)

EvalInit ==
    /\ pc = "eval"
    /\ ws = "unset"
    /\ running = FALSE
    /\ player_id = 1
    /\ room_id = None
    /\ game_state \in UNION {Snapshots(h) : h \in HeadCells}
    /\ wins = 0
    /\ games_played = 0
    /\ difficulty \in {ClampDifficulty(d) : d \in {5, 12}}
    /\ msg = NoMsg
    /\ out = <<>>
    /\ direction = NoneStr
    /\ mistaken = FALSE
    /\ orphans = 0
    /\ joins_here = 0
    /\ stub = NoStub

Evaluate ==
    /\ pc = "eval"
    /\ \E rnd \in [Candidates(game_state, player_id) -> Draws(difficulty)] :
          /\ direction' = calculate_move(game_state, player_id, difficulty, rnd)
          /\ mistaken' = (\E d \in DOMAIN rnd : IsMistake(rnd[d].roll, difficulty))
    /\ pc' = "done"
    /\ UNCHANGED <<ws, running, player_id, room_id, game_state, wins, games_played,
                   difficulty, msg, out, orphans, joins_here, stub>>

EvalNext == Evaluate

EvalSpec == EvalInit /\ [][EvalNext]_vars

-----------------------------------------------------------------------------
(* The session: play(), connect() and handle_message() *)

\* The most gameover frames handled in a run.
MaxGames == 2
\* The most connections left open behind a reconnect in a run.
MaxOrphans == 1

PlayerIds == {1, 2}
RoomIds == {1, 2}

\* The snapshots sent in state frames: the own snake heading right towards the
\* food with the opponent ahead of and above it, the same game stopped, a game with one
\* snake only, coiled in a corner with no safe move left, and a game whose snakes
\* have lost their bodies.
Snake1 == [body |-> <<<<5, 5>>, <<4, 5>>>>, direction |-> "right"]
Snake2 == [body |-> <<<<6, 5>>, <<6, 4>>, <<5, 4>>>>, direction |-> "down"]
Cornered == [body |-> <<<<0, 0>>, <<1, 0>>, <<1, 1>>, <<0, 1>>>>, direction |-> "left"]
SessionSnapshots ==
    {[present |-> TRUE, running |-> r, food |-> <<10, 5>>,
      snakes |-> [k \in {"1", "2"} |-> IF k = "1" THEN Snake1 ELSE Snake2]] :
        r \in BOOLEAN}
    \cup {[present |-> TRUE, running |-> TRUE, food |-> <<>>,
           snakes |-> [k \in {"1"} |-> Cornered]],
          [present |-> TRUE, running |-> TRUE, food |-> <<5, 4>>,
           snakes |-> [k \in {"1", "2"} |-> [body |-> <<>>, direction |-> "up"]]]}

\* The decoded objects a server can send, fields present or missing.
JoinedData ==
    {[type |-> "joined", player_id |-> p, room_id |-> r] : p \in PlayerIds, r \in RoomIds}
    \cup {[type |-> "joined", player_id |-> p] : p \in PlayerIds}
    \cup {[type |-> "joined", room_id |-> r] : r \in RoomIds}
    \cup {[type |-> "joined"]}
StateData ==
    {[type |-> "state", game |-> g] : g \in SessionSnapshots} \cup {[type |-> "state"]}
GameoverData ==
    {[type |-> "gameover", winner |-> w] : w \in PlayerIds \cup {None}}
    \cup {[type |-> "gameover"]}
OtherData == {[type |-> "start"], [type |-> "waiting"], [type |-> "ping"], [winner |-> 1]}

\* The frames recv() can return: text that json.loads rejects, JSON text that is
\* no object, and JSON objects.
Frames ==
    {[kind |-> "text"], [kind |-> "array"]}
    \cup {[kind |-> "object", data |-> d] :
            d \in JoinedData \cup StateData \cup GameoverData \cup OtherData}

\* data.get(key) for the keys holding numbers
Get(data, key) == IF key \in DOMAIN data THEN data[key] ELSE None

\* data.get("type")
MsgType(data) == IF "type" \in DOMAIN data THEN data.type ELSE NoneStr

\* data.get("game")
GetGame(data) == IF "game" \in DOMAIN data THEN data.game ELSE NoGame

\* json.dumps of the two actions
ReadyAction == [action |-> "ready"]
MoveAction(d) == [action |-> "move", direction |-> d]

\* RobotPlayer.__init__, with the default difficulty of line 22
Init ==
    /\ pc = "connect"
    /\ ws = "unset"
    /\ running = FALSE
    /\ player_id = None
    /\ room_id = None
    /\ game_state = NoGame
    /\ wins = 0
    /\ games_played = 0
    /\ difficulty = ClampDifficulty(5)
    /\ msg = NoMsg
    /\ out = <<>>
    /\ direction = NoneStr
    /\ mistaken = FALSE
    /\ orphans = 0
    /\ joins_here = 0
    /\ stub = NoStub

\* A connect that starts the session afresh, counters included.
ConnectOk_FreshSession ==
    /\ pc = "connect"
    /\ orphans + (IF ws = "open" THEN 1 ELSE 0) <= MaxOrphans
    /\ ws' = "open"
    /\ orphans' = orphans + (IF ws = "open" THEN 1 ELSE 0)
    /\ running' = TRUE
    /\ joins_here' = 0
    /\ pc' = "recv"
    /\ wins' = 0
    /\ games_played' = 0
    /\ UNCHANGED <<player_id, room_id, game_state, difficulty, msg, out, direction,
                   mistaken, stub>>

\* connect() returns True: self.ws is the new connection; play() sets running.
ConnectOk ==
    /\ pc = "connect"
    /\ orphans + (IF ws = "open" THEN 1 ELSE 0) <= MaxOrphans
    /\ ws' = "open"
    /\ orphans' = orphans + (IF ws = "open" THEN 1 ELSE 0)
    /\ running' = TRUE
    /\ joins_here' = 0
    /\ pc' = "recv"
    /\ UNCHANGED <<player_id, room_id, game_state, wins, games_played, difficulty,
                   msg, out, direction, mistaken, stub>>

\* connect() returns False: play() sleeps 3 seconds.
ConnectFailStep ==
    /\ pc = "connect"
    /\ pc' = "retry_wait"
    /\ UNCHANGED <<ws, running, player_id, room_id, game_state, wins, games_played,
                   difficulty, msg, out, direction, mistaken, orphans,
                   joins_here>>

ConnectFail == ConnectFailStep /\ UNCHANGED stub

\* A failed connect after which play() gives up.
RetryWaitDone_GivesUp ==
    /\ pc = "retry_wait"
    /\ pc' = "stopped"
    /\ UNCHANGED <<ws, running, player_id, room_id, game_state, wins, games_played,
                   difficulty, msg, out, direction, mistaken, orphans,
                   joins_here, stub>>

\* The 3 seconds are over: `continue`.
RetryWaitDone ==
    /\ pc = "retry_wait"
    /\ pc' = "connect"
    /\ UNCHANGED <<ws, running, player_id, room_id, game_state, wins, games_played,
                   difficulty, msg, out, direction, mistaken, orphans,
                   joins_here, stub>>

\* The peer or the network closes the connection held in self.ws.
TransportClose ==
    /\ ws = "open"
    /\ ws' = "closed"
    /\ UNCHANGED <<pc, running, player_id, room_id, game_state, wins, games_played,
                   difficulty, msg, out, direction, mistaken, orphans,
                   joins_here, stub>>

\* recv() raises ConnectionClosed: play() sleeps 2 seconds.
RecvClosed ==
    /\ pc = "recv"
    /\ ws = "closed"
    /\ pc' = "reconnect_wait"
    /\ UNCHANGED <<ws, running, player_id, room_id, game_state, wins, games_played,
                   difficulty, msg, out, direction, mistaken, orphans,
                   joins_here, stub>>

\* recv() returns a frame that json.loads rejects, or one whose JSON value has no
\* get(): the exception leaves the message loop and play() sleeps 2 seconds.
\* (recv() hands out the frames that arrived before a close, so a frame can be
\* handled while ws is already "closed"; this holds for every handler below.)
RecvMalformed(frame) ==
    /\ pc = "recv"
    /\ frame.kind # "object"
    /\ msg' = frame
    /\ out' = <<>>
    /\ direction' = NoneStr
    /\ mistaken' = FALSE
    /\ pc' = "reconnect_wait"
    /\ UNCHANGED <<ws, running, player_id, room_id, game_state, wins, games_played,
                   difficulty, orphans,
                   joins_here, stub>>

\* A send that goes through on a closed connection as on an open one.
Send_IgnoresClosed(action, sent_before) ==
    out' = Append(sent_before, action) /\ pc' = "recv"

\* await self.ws.send(action) while handling a frame: the action goes out on an
\* open connection and the loop goes on; on a closed one send raises
\* ConnectionClosed.
Send(action, sent_before) ==
    IF ws = "open"
    THEN out' = Append(sent_before, action) /\ pc' = "recv"
    ELSE out' = sent_before /\ pc' = "reconnect_wait"

\* The joined handler keeping an identity it already has.
HandleJoined_KeepsFirst(frame) ==
    /\ pc = "recv"
    /\ frame.kind = "object" /\ MsgType(frame.data) = "joined"
    /\ msg' = frame
    /\ player_id' = IF player_id = None THEN Get(frame.data, "player_id") ELSE player_id
    /\ room_id' = IF room_id = None THEN Get(frame.data, "room_id") ELSE room_id
    /\ Send(ReadyAction, <<>>)
    /\ joins_here' = IF joins_here = 0 THEN 1 ELSE 2
    /\ direction' = NoneStr
    /\ mistaken' = FALSE
    /\ UNCHANGED <<ws, running, game_state, wins, games_played, difficulty, orphans, stub>>

\* msg_type == "joined"
HandleJoined(frame) ==
    /\ pc = "recv"
    /\ frame.kind = "object" /\ MsgType(frame.data) = "joined"
    /\ msg' = frame
    /\ player_id' = Get(frame.data, "player_id")
    /\ room_id' = Get(frame.data, "room_id")
    /\ Send(ReadyAction, <<>>)
    /\ joins_here' = IF joins_here = 0 THEN 1 ELSE 2
    /\ direction' = NoneStr
    /\ mistaken' = FALSE
    /\ UNCHANGED <<ws, running, game_state, wins, games_played, difficulty, orphans, stub>>

\* The state handler without the test of the snapshot's running flag.
HandleState_IgnoresRunning(frame) ==
    /\ pc = "recv"
    /\ frame.kind = "object" /\ MsgType(frame.data) = "state"
    /\ msg' = frame
    /\ game_state' = GetGame(frame.data)
    /\ IF game_state'.present
       THEN \E rnd \in [Candidates(game_state', player_id) -> Draws(difficulty)] :
               /\ direction' = calculate_move(game_state', player_id, difficulty, rnd)
               /\ mistaken' = (\E d \in DOMAIN rnd : IsMistake(rnd[d].roll, difficulty))
               /\ IF direction' # NoneStr
                  THEN Send(MoveAction(direction'), <<>>)
                  ELSE out' = <<>> /\ pc' = "recv"
       ELSE /\ direction' = NoneStr
            /\ mistaken' = FALSE
            /\ out' = <<>>
            /\ pc' = "recv"
    /\ UNCHANGED <<ws, running, player_id, room_id, wins, games_played, difficulty,
                   orphans, joins_here, stub>>

\* msg_type == "state"
HandleState(frame) ==
    /\ pc = "recv"
    /\ frame.kind = "object" /\ MsgType(frame.data) = "state"
    /\ msg' = frame
    /\ game_state' = GetGame(frame.data)
    /\ IF game_state'.present /\ game_state'.running
       THEN \E rnd \in [Candidates(game_state', player_id) -> Draws(difficulty)] :
               /\ direction' = calculate_move(game_state', player_id, difficulty, rnd)
               /\ mistaken' = (\E d \in DOMAIN rnd : IsMistake(rnd[d].roll, difficulty))
               /\ IF direction' # NoneStr
                  THEN Send(MoveAction(direction'), <<>>)
                  ELSE out' = <<>> /\ pc' = "recv"
       ELSE /\ direction' = NoneStr
            /\ mistaken' = FALSE
            /\ out' = <<>>
            /\ pc' = "recv"
    /\ UNCHANGED <<ws, running, player_id, room_id, wins, games_played, difficulty,
                   orphans,
                   joins_here, stub>>

\* The gameover handler without the count of the win.
HandleGameover_NoWin(frame) ==
    /\ pc = "recv"
    /\ frame.kind = "object" /\ MsgType(frame.data) = "gameover"
    /\ games_played < MaxGames
    /\ msg' = frame
    /\ out' = <<>>
    /\ games_played' = games_played + 1
    /\ wins' = wins
    /\ pc' = "ready_delay"
    /\ direction' = NoneStr
    /\ mistaken' = FALSE
    /\ UNCHANGED <<ws, running, player_id, room_id, game_state, difficulty, orphans,
                   joins_here, stub>>

\* msg_type == "gameover", up to the sleep of 1 second
HandleGameover(frame) ==
    /\ pc = "recv"
    /\ frame.kind = "object" /\ MsgType(frame.data) = "gameover"
    /\ games_played < MaxGames
    /\ msg' = frame
    /\ out' = <<>>
    /\ games_played' = games_played + 1
    /\ wins' = IF Get(frame.data, "winner") = player_id THEN wins + 1 ELSE wins
    /\ pc' = "ready_delay"
    /\ direction' = NoneStr
    /\ mistaken' = FALSE
    /\ UNCHANGED <<ws, running, player_id, room_id, game_state, difficulty, orphans,
                   joins_here, stub>>

\* The second is over: the ready action for the next game is sent.
ReadyAfterDelay ==
    /\ pc = "ready_delay"
    /\ Send(ReadyAction, out)
    /\ UNCHANGED <<ws, running, player_id, room_id, game_state, wins, games_played,
                   difficulty, msg, direction, mistaken, orphans,
                   joins_here, stub>>

\* msg_type is "start", "waiting" or no type handle_message knows: nothing changes.
HandleOther(frame) ==
    /\ pc = "recv"
    /\ frame.kind = "object"
    /\ MsgType(frame.data) \notin {"joined", "state", "gameover"}
    /\ msg' = frame
    /\ out' = <<>>
    /\ direction' = NoneStr
    /\ mistaken' = FALSE
    /\ UNCHANGED <<pc, ws, running, player_id, room_id, game_state, wins,
                   games_played, difficulty, orphans,
                   joins_here, stub>>

\* An except clause that ends play() instead of looping.
ReconnectWaitDone_Stops ==
    /\ pc = "reconnect_wait"
    /\ running' = FALSE
    /\ pc' = "stopped"
    /\ UNCHANGED <<ws, player_id, room_id, game_state, wins, games_played, difficulty,
                   msg, out, direction, mistaken, orphans,
                   joins_here, stub>>

\* The 2 seconds of an except clause are over: finally, then `while True` again.
ReconnectWaitDone ==
    /\ pc = "reconnect_wait"
    /\ running' = FALSE
    /\ pc' = "connect"
    /\ UNCHANGED <<ws, player_id, room_id, game_state, wins, games_played, difficulty,
                   msg, out, direction, mistaken, orphans,
                   joins_here, stub>>

Next ==
    \/ ConnectOk
    \/ ConnectFail
    \/ RetryWaitDone
    \/ TransportClose
    \/ RecvClosed
    \/ \E frame \in Frames : RecvMalformed(frame)
    \/ \E frame \in Frames : HandleJoined(frame)
    \/ \E frame \in Frames : HandleState(frame)
    \/ \E frame \in Frames : HandleGameover(frame)
    \/ \E frame \in Frames : HandleOther(frame)
    \/ ReadyAfterDelay
    \/ ReconnectWaitDone

Spec == Init /\ [][Next]_vars

\* The session in which every sleep ends and a recv() on a closed connection
\* raises once the frames received before the close are used up.
FairSpec ==
    /\ Init /\ [][Next]_vars
    /\ WF_vars(RetryWaitDone)
    /\ WF_vars(ReconnectWaitDone)
    /\ WF_vars(ReadyAfterDelay)
    /\ WF_vars(RecvClosed)

-----------------------------------------------------------------------------
(* The session on a stub transport that refuses the first `fails` connects, *)
(* accepts the next and delivers one joined frame.                          *)

\* The most connects the stub refuses.
MaxFailures == 3

Stubs ==
    {[scripted |-> TRUE, fails |-> n, failed |-> 0,
      frame |-> [kind |-> "object", data |-> d]] :
        n \in 0..MaxFailures, d \in JoinedData}

RetryInit ==
    /\ pc = "connect"
    /\ ws = "unset"
    /\ running = FALSE
    /\ player_id = None
    /\ room_id = None
    /\ game_state = NoGame
    /\ wins = 0
    /\ games_played = 0
    /\ difficulty = ClampDifficulty(5)
    /\ msg = NoMsg
    /\ out = <<>>
    /\ direction = NoneStr
    /\ mistaken = FALSE
    /\ orphans = 0
    /\ joins_here = 0
    /\ stub \in Stubs

\* The stub refuses a connect.
StubConnectFail ==
    /\ stub.failed < stub.fails
    /\ ConnectFailStep
    /\ stub' = [stub EXCEPT !.failed = @ + 1]

\* The stub accepts a connect.
StubConnectOk ==
    /\ stub.failed = stub.fails
    /\ ConnectOk

\* The stub delivers its joined frame, once.
StubDeliver ==
    /\ msg = NoMsg
    /\ HandleJoined(stub.frame)

RetryNext ==
    \/ StubConnectFail
    \/ RetryWaitDone
    \/ StubConnectOk
    \/ StubDeliver

\* Every sleep ends, and the stub answers every connect and delivers its frame.
RetrySpec == RetryInit /\ [][RetryNext]_vars /\ WF_vars(RetryNext)

-----------------------------------------------------------------------------
(* Properties of the evaluator, over the snapshot in game_state *)

\* The own snake is in the snapshot and has a body.
HasOwnBody ==
    /\ game_state.present
    /\ ToString(player_id) \in DOMAIN game_state.snakes
    /\ Len(game_state.snakes[ToString(player_id)].body) > 0

OwnSnake == game_state.snakes[ToString(player_id)]
OwnHead == OwnSnake.body[1]
OwnDir == IF "direction" \in DOMAIN OwnSnake THEN OwnSnake.direction ELSE "right"

\* The cells held by a body segment of any snake of the snapshot.
Occupied ==
    {c \in Near(OwnHead) \cup {OwnHead} :
        \E k \in DOMAIN game_state.snakes :
            \E i \in 1..Len(game_state.snakes[k].body) : game_state.snakes[k].body[i] = c}

SafeCell(c) == InGrid(c) /\ c \notin Occupied

\* The directions that do not reverse and lead to a safe cell.
SafeDirs == {d \in DirSet : d # opposites(OwnDir) /\ SafeCell(Step(OwnHead, d))}

Evaluated == pc = "done"

\* C1: with the own snake present and some non-reversing direction safe, the
\* evaluator never returns the opposite of the snake's current direction.
C1_NeverReverses ==
    (Evaluated /\ HasOwnBody /\ SafeDirs # {}) => direction # opposites(OwnDir)

\* C1 witness: the cell behind the head is free and holds the food, and the
\* evaluator still chose another direction.
C1_Witness ==
    /\ Evaluated /\ HasOwnBody /\ SafeDirs # {}
    /\ OwnDir \in DirSet
    /\ SafeCell(Step(OwnHead, opposites(OwnDir)))
    /\ game_state.food = Step(OwnHead, opposites(OwnDir))
    /\ direction \in DirSet

\* The first direction, in the order up, down, left, right, that does not reverse.
FirstNonReversing ==
    CHOOSE d \in DirSet :
        /\ d # opposites(OwnDir)
        /\ \A i, j \in 1..Len(directions) :
              (directions[j] = d /\ i < j) => directions[i] = opposites(OwnDir)

\* C2: with the own snake present and no non-reversing direction safe, the
\* evaluator returns the first non-reversing direction in the order up, down,
\* left, right, and never none.
C2_DoomedMove ==
    (Evaluated /\ HasOwnBody /\ SafeDirs = {}) =>
        (direction = FirstNonReversing /\ direction # NoneStr)

\* C2 witness: a doomed snake heading down, whose first non-reversing direction
\* is its current one.
C2_Witness ==
    /\ Evaluated /\ HasOwnBody /\ SafeDirs = {}
    /\ OwnDir = "down"
    /\ direction = "down"

\* C3: with some non-reversing direction safe, the returned direction leads to a
\* cell inside the grid that no body segment of any snake holds.
C3_ReturnsSafeCell ==
    (Evaluated /\ HasOwnBody /\ SafeDirs # {}) =>
        /\ direction \in DirSet
        /\ InGrid(Step(OwnHead, direction))
        /\ Step(OwnHead, direction) \notin Occupied

\* C3 witness: a penalty was applied, one non-reversing direction runs into a wall
\* and another into a snake, and a direction was returned.
C3_Witness ==
    /\ Evaluated /\ HasOwnBody /\ SafeDirs # {} /\ mistaken
    /\ \E d \in DirSet : d # opposites(OwnDir) /\ ~InGrid(Step(OwnHead, d))
    /\ \E d \in DirSet : d # opposites(OwnDir) /\ Step(OwnHead, d) \in Occupied
    /\ direction \in DirSet

\* The safe neighbours of a cell.
Escapes(c) == Cardinality({d \in DirSet : SafeCell(Step(c, d))})

\* C4: if the food is on the cell of a safe non-reversing candidate and no random
\* penalty is applied, the evaluator returns the direction that lands on the food.
C4_FoodFirst ==
    (Evaluated /\ HasOwnBody /\ ~mistaken /\
     \E d \in SafeDirs : game_state.food = Step(OwnHead, d)) =>
        (direction \in DirSet /\ Step(OwnHead, direction) = game_state.food)

\* C4 witness: the food candidate was chosen although another safe candidate has
\* more escape routes.
C4_Witness ==
    /\ Evaluated /\ HasOwnBody /\ ~mistaken
    /\ direction \in SafeDirs
    /\ game_state.food = Step(OwnHead, direction)
    /\ \E d \in SafeDirs : Escapes(Step(OwnHead, d)) > Escapes(game_state.food) + 1

-----------------------------------------------------------------------------
(* Properties of the session *)

IsFrameOf(frame, type) == frame.kind = "object" /\ MsgType(frame.data) = type

\* C5: handling a state frame sends at most one action, a move; a state frame
\* without snapshot, with a snapshot that is not running, or for which the
\* evaluator returns none sends nothing and stays in the message loop.
C5_StateSendsAtMostOneMove ==
    [][HandleState(msg') =>
          /\ Len(out') <= 1
          /\ \A i \in 1..Len(out') : out'[i].action = "move"
          /\ ("game" \notin DOMAIN msg'.data \/ ~msg'.data.game.running
                \/ direction' = NoneStr)
                => (out' = <<>> /\ pc' = "recv")]_vars

\* C5 witness: a running snapshot without a snake for the own id was handled:
\* nothing was sent and the loop waits for the next frame.
C5_Witness ==
    /\ IsFrameOf(msg, "state")
    /\ "game" \in DOMAIN msg.data /\ msg.data.game.running
    /\ player_id \in PlayerIds
    /\ direction = NoneStr
    /\ out = <<>>
    /\ pc = "recv"

IdentityUnset == player_id = None /\ room_id = None

\* C6: after a connection loss the identity and the snapshot are unknown before
\* the next connect attempt, and the identity stays unknown until a joined frame
\* is handled on the new connection.
C6_ResetOnLoss ==
    /\ pc \in {"connect", "retry_wait"} => (IdentityUnset /\ game_state = NoGame)
    /\ (pc = "recv" /\ ~joined_here) => IdentityUnset

\* A frame that cannot be decoded, or that lacks a field of its message shape.
Malformed(frame) ==
    \/ frame.kind # "object"
    \/ "type" \notin DOMAIN frame.data
    \/ IsFrameOf(frame, "joined") /\ {"player_id", "room_id"} \ DOMAIN frame.data # {}
    \/ IsFrameOf(frame, "state") /\ "game" \notin DOMAIN frame.data

\* The step of play() that receives `frame` and handles it (the handlers record
\* the frame they handle in msg).
Receives(frame) ==
    \/ RecvMalformed(frame)
    \/ HandleJoined(frame)
    \/ HandleState(frame)
    \/ HandleGameover(frame)
    \/ HandleOther(frame)

\* C7: a malformed frame is dropped: the message loop goes on with the same
\* connection, and identity, snapshot and counters are left as they were.
C7_MalformedDropped ==
    [][(Malformed(msg') /\ Receives(msg')) =>
          /\ pc' = "recv"
          /\ UNCHANGED <<ws, player_id, room_id, game_state, wins, games_played>>]_vars

\* The counting of a won game: a gameover frame whose winner is the own id adds
\* one to wins and one to games_played, and the delay starts with nothing sent.
WinCounted ==
    (HandleGameover(msg') /\ Get(msg'.data, "winner") = player_id) =>
        /\ wins' = wins + 1
        /\ games_played' = games_played + 1
        /\ out' = <<>>

\* No frame is handled during the delay.
DelayHoldsFrames ==
    (pc = "ready_delay" /\ pc' = "ready_delay") => (msg' = msg /\ out' = out)

\* C8 as claimed: the win is counted, and the delay ends, before any later frame
\* is handled, with exactly one ready action sent.
C8_WinThenReady ==
    [][/\ WinCounted
       /\ DelayHoldsFrames
       /\ (pc = "ready_delay" /\ pc' # "ready_delay") =>
             (msg' = msg /\ out' = <<ReadyAction>> /\ pc' = "recv")]_vars

\* C8 amended: the win is counted, and the delay ends, before any later frame is
\* handled, with exactly one ready action sent if the connection is still open;
\* if it has closed, nothing is sent and the message loop is left.
C8_WinThenReadyIfOpen ==
    [][/\ WinCounted
       /\ DelayHoldsFrames
       /\ (pc = "ready_delay" /\ pc' # "ready_delay") =>
             /\ msg' = msg
             /\ IF ws = "open"
                THEN out' = <<ReadyAction>> /\ pc' = "recv"
                ELSE out' = <<>> /\ pc' = "reconnect_wait"]_vars

\* C8 witness: a joined player has won a game and the ready action for the next
\* game has been sent.
C8_Witness ==
    /\ IsFrameOf(msg, "gameover")
    /\ player_id \in PlayerIds
    /\ Get(msg.data, "winner") = player_id
    /\ wins = 1 /\ games_played = 1
    /\ out = <<ReadyAction>>
    /\ pc = "recv"

\* C9: every gameover frame adds one to games_played; one without winner, or with
\* a winner other than the own id, leaves wins as it was, also before any joined
\* frame has set the identity.
C9_DrawLeavesWins ==
    [][HandleGameover(msg') =>
          /\ games_played' = games_played + 1
          /\ (Get(msg'.data, "winner") = None \/ Get(msg'.data, "winner") # player_id)
                => wins' = wins]_vars

\* C10: the player id and the room id are both unknown or both known.
C10_IdentityAllOrNothing == (player_id = None) <=> (room_id = None)

\* What a joined frame after the first one on a connection does to the identity
\* and the counters: the identity is that of the latest frame, the counters are
\* left alone, and the same frame twice leaves the identity of the first time.
RejoinedIdentity ==
    /\ player_id' = Get(msg'.data, "player_id")
    /\ room_id' = Get(msg'.data, "room_id")
    /\ UNCHANGED <<wins, games_played>>
    /\ msg' = msg => UNCHANGED <<player_id, room_id>>

\* C11 as claimed: a second joined frame on the same connection overwrites the
\* identity, sends exactly one ready action, leaves the counters unchanged and
\* stays in the message loop; a repeated frame leaves the identity as it was.
C11_RejoinedReady ==
    [][(HandleJoined(msg') /\ joined_here) =>
          (RejoinedIdentity /\ out' = <<ReadyAction>> /\ pc' = "recv")]_vars

\* C11 amended: as claimed when the connection is open; on a connection that has
\* closed the identity is overwritten all the same, but no ready action is sent
\* and the message loop is left.
C11_RejoinedReadyIfOpen ==
    [][(HandleJoined(msg') /\ joined_here) =>
          /\ RejoinedIdentity
          /\ IF ws = "open"
             THEN out' = <<ReadyAction>> /\ pc' = "recv"
             ELSE out' = <<>> /\ pc' = "reconnect_wait"]_vars

\* C11 witness: at least two joined frames were handled on the open connection,
\* the last gave player 2 and room 2, and one ready action was sent for it.
C11_Witness ==
    /\ joins_here = 2
    /\ IsFrameOf(msg, "joined")
    /\ msg.data = [type |-> "joined", player_id |-> 2, room_id |-> 2]
    /\ player_id = 2 /\ room_id = 2
    /\ out = <<ReadyAction>>
    /\ pc = "recv" /\ ws = "open"

\* C14: an action is sent only on an open connection and from the message loop
\* (handling a frame, or ending the delay after a gameover frame), never while
\* disconnected or connecting; a delay that ends on a closed connection sends
\* nothing.
C14_SendsOnlyWhenOpen ==
    [][/\ (out' # out /\ out' # <<>>) =>
             (ws = "open" /\ running /\ pc \in {"recv", "ready_delay"})
       /\ (pc = "ready_delay" /\ pc' # "ready_delay" /\ ws # "open") => out' = out]_vars

\* C14 witness: the delay after a gameover frame ended on a connection that had
\* closed, and no ready action was sent.
C14_Witness ==
    /\ IsFrameOf(msg, "gameover")
    /\ joined_here
    /\ ws = "closed"
    /\ pc = "reconnect_wait"
    /\ out = <<>>

\* C15: wins and games_played never decrease, and only the handling of a gameover
\* frame changes them.
C15_CountersMonotone ==
    [][/\ wins' >= wins
       /\ games_played' >= games_played
       /\ (wins' # wins \/ games_played' # games_played) => HandleGameover(msg')]_vars

\* C15 witness: two games were counted on a connection that was then lost, and
\* the counters are still there on the next connection.
C15_Witness ==
    /\ IsFrameOf(msg, "gameover")
    /\ games_played = 2 /\ wins = 1
    /\ pc = "recv" /\ ws = "open"
    /\ joins_here = 0

\* C17: a move is sent only on a connection on which a joined frame was handled.
C17_MoveOnlyAfterJoined ==
    [][(HandleState(msg') /\ out' # <<>>) => joined_here]_vars

\* C20: the client never holds more than one open connection.
C20_OneConnection == orphans + (IF ws = "open" THEN 1 ELSE 0) <= 1

-----------------------------------------------------------------------------
(* The reference evaluator, written from the scoring rule *)

\* The distance from a cell to the nearest edge of the grid.
EdgeDistance(c) ==
    LET ds == {c[1], GRID_WIDTH - 1 - c[1], c[2], GRID_HEIGHT - 1 - c[2]}
    IN  CHOOSE m \in ds : \A n \in ds : m <= n

Manhattan(a, b) == Abs(a[1] - b[1]) + Abs(a[2] - b[2])

\* The unpenalised score of direction d for the snapshot in game_state.
RefScore(d) ==
    LET c == Step(OwnHead, d)
        food == game_state.food
    IN  (IF c = food THEN 1000 ELSE 0)
        + 50 * Escapes(c)
        + (IF food # <<>> THEN 10 * (30 + 20 - Manhattan(c, food)) ELSE 0)
        + 5 * EdgeDistance(c)

\* The place of a direction in the order up, down, left, right.
Rank(d) == CHOOSE i \in 1..Len(directions) : directions[i] = d

\* The safe candidate of greatest score, the first of them in the order.
RefMove ==
    CHOOSE d \in SafeDirs :
        \A e \in SafeDirs :
            \/ RefScore(e) < RefScore(d)
            \/ RefScore(e) = RefScore(d) /\ Rank(d) <= Rank(e)

\* Head (5,5), heading right, food at (10,5), no other snake.
ExampleSnapshot ==
    [present |-> TRUE, running |-> TRUE, food |-> <<10, 5>>,
     snakes |-> [k \in {"1"} |-> [body |-> <<<<5, 5>>>>, direction |-> "right"]]]

\* C16: at difficulty 10 the evaluator returns the reference move: the safe
\* non-reversing candidate of greatest score, the first in the order up, down,
\* left, right among equals; for the example snapshot that is right.
C16_MatchesReference ==
    (Evaluated /\ HasOwnBody /\ SafeDirs # {} /\ difficulty = 10) =>
        /\ direction = RefMove
        /\ game_state = ExampleSnapshot => direction = "right"

\* C16 witness: at difficulty 10 two safe candidates had the greatest score and
\* the earlier one in the order was returned.
C16_Witness ==
    /\ Evaluated /\ HasOwnBody /\ difficulty = 10
    /\ direction \in SafeDirs
    /\ \E e \in SafeDirs :
          /\ e # direction
          /\ RefScore(e) = RefScore(direction)
          /\ Rank(direction) < Rank(e)

\* C19: whatever penalties are drawn, the unpenalised score of the returned
\* direction is within 30 of the greatest unpenalised score of a safe candidate.
C19_PenaltyBounded ==
    (Evaluated /\ HasOwnBody /\ SafeDirs # {}) =>
        /\ direction \in SafeDirs
        /\ \A d \in SafeDirs : RefScore(direction) >= RefScore(d) - 30

\* C19 witness: a penalty made the evaluator return a direction whose
\* unpenalised score is 25 below the greatest.
C19_Witness ==
    /\ Evaluated /\ HasOwnBody /\ mistaken
    /\ direction \in SafeDirs
    /\ \E d \in SafeDirs : RefScore(d) = RefScore(direction) + 25

-----------------------------------------------------------------------------
(* The evaluator inside the session *)

\* A state frame with a running snapshot is being handled.
HandlesRunningState ==
    /\ HandleState(msg')
    /\ game_state'.present /\ game_state'.running

\* Without a snapshot the evaluator returns none.
NoneWithoutSnapshot ==
    calculate_move(NoGame, player_id, difficulty, <<>>) = NoneStr

\* C18: the evaluator returns none exactly when there is no snapshot, no own
\* snake or no body, else a direction, and every running snapshot with the own
\* snake and a body gets exactly one move action.
C18_OneMovePerSnapshot ==
    [][/\ NoneWithoutSnapshot
       /\ HandlesRunningState =>
              /\ direction' = NoneStr <=> ~HasOwnBody'
              /\ IF HasOwnBody'
                 THEN /\ direction' \in DirSet
                      /\ out' = <<MoveAction(direction')>>
                      /\ pc' = "recv"
                 ELSE out' = <<>>]_vars

\* C18 with the send of the move depending on the connection being open.
C18_OneMovePerSnapshotIfOpen ==
    [][/\ NoneWithoutSnapshot
       /\ HandlesRunningState =>
              /\ direction' = NoneStr <=> ~HasOwnBody'
              /\ IF HasOwnBody'
                 THEN /\ direction' \in DirSet
                      /\ IF ws = "open"
                         THEN out' = <<MoveAction(direction')>> /\ pc' = "recv"
                         ELSE out' = <<>> /\ pc' = "reconnect_wait"
                 ELSE out' = <<>>]_vars

\* C18 witness: a running snapshot in which the own snake has no safe move was
\* handled on an open connection and one move was sent.
C18_Witness ==
    /\ IsFrameOf(msg, "state")
    /\ game_state.present /\ game_state.running
    /\ HasOwnBody /\ SafeDirs = {}
    /\ direction \in DirSet
    /\ out = <<MoveAction(direction)>>
    /\ pc = "recv" /\ ws = "open"

-----------------------------------------------------------------------------
(* Recovery *)

\* C13: a failed connect, a closed connection and an error raised while
\* receiving or handling a frame are each followed by a new connect attempt, and
\* play() is never at an end: some step is always possible.
C13_AlwaysReconnects ==
    /\ (pc = "retry_wait") ~> (pc = "connect")
    /\ (pc = "recv" /\ ws = "closed") ~> (pc = "connect")
    /\ (pc = "reconnect_wait") ~> (pc = "connect")
    /\ [](pc \in {"connect", "retry_wait", "recv", "ready_delay", "reconnect_wait"})
    /\ [](ENABLED <<Next>>_vars)

\* C13 witness: after a frame that could not be decoded on a connection that is
\* still open, the wait is over and play() is about to connect again.
C13_Witness ==
    /\ pc = "connect"
    /\ msg.kind = "text"
    /\ ws = "open"
    /\ ~running

-----------------------------------------------------------------------------
(* Reconnect convergence on the stub transport *)

\* Recovered: connected after all the refused connects, the joined frame handled
\* and one ready action sent for it.
Recovered ==
    /\ stub.failed = stub.fails
    /\ ws = "open" /\ pc = "recv"
    /\ joined_here
    /\ out = <<ReadyAction>>

\* C12: on a transport that refuses N connects, accepts the next and delivers
\* one joined frame, play() retries after each refusal, connects only after all
\* N, and then sends exactly one ready action.
C12_RetryThenReadyOnce ==
    /\ [](pc = "retry_wait" => <>(pc = "connect"))
    /\ [](ws = "open" => stub.failed = stub.fails)
    /\ [](out = <<>> \/ out = <<ReadyAction>>)
    /\ [][out' # out => (out = <<>> /\ joins_here = 0 /\ joins_here' = 1)]_vars
    /\ <>[]Recovered

\* C12 witness: recovered after the stub refused two connects or more.
C12_Witness ==
    /\ stub.scripted
    /\ stub.fails >= 2
    /\ Recovered
    /\ stub.frame.data = [type |-> "joined", player_id |-> 2, room_id |-> 1]
    /\ player_id = 2 /\ room_id = 1

====
